---- MODULE Spec2Model ----
(***************************************************************************)
(* sphinx_doc.autodoc: the doc-string processor, the code-block            *)
(* reformatter, the type substitution mapper and the member filter that    *)
(* Sphinx drives through its autodoc events.                               *)
(*                                                                         *)
(* Text is modelled character by character: a string is a sequence of      *)
(* one-character strings, a line buffer is a sequence of such strings.     *)
(* Lines never hold a newline (autodoc hands over split lines).            *)
(***************************************************************************)
EXTENDS Naturals, Sequences, FiniteSets, TLC

VARIABLES
    type_transform, \* DocstringProcessor.type_transform.type_transform: canonical string -> type
    symbols,        \* DocstringProcessor.symbols
    pc,             \* "idle": waiting for the host's next event; "done": a callback has returned or raised
    op,             \* the callback or method that ran last
    arg,            \* its arguments
    lines,          \* the documentation line buffer, mutated in place
    options,        \* the autodoc options record
    ret,            \* the value returned
    raised          \* the exception that left the call, or NoError

vars == <<type_transform, symbols, pc, op, arg, lines, options, ret, raised>>

----------------------------------------------------------------------------
(* Strings *)

Cat3(a, b, c) == a \o b \o c

StartsWith(s, p) == Len(s) >= Len(p) /\ SubSeq(s, 1, Len(p)) = p

\* str.join
RECURSIVE Join(_, _)
Join(sep, pieces) ==
    IF Len(pieces) = 0 THEN <<>>
    ELSE IF Len(pieces) = 1 THEN pieces[1]
    ELSE pieces[1] \o sep \o Join(sep, Tail(pieces))

\* the characters the regular expression class \s matches
Whitespace == {" ", "\t"}

SP == <<" ">>

\* The backquote character: a TLA+ string literal cannot hold one, "~" stands for it.
BQ == "~"

----------------------------------------------------------------------------
(* Type expressions.  k is the variant: "plain" (a class, named n), "none" *)
(* (NoneType), "ann" (Annotated[args[1], *meta]), "union" (Union[*args]),  *)
(* "str" (an unevaluated forward reference).                               *)

PlainType(n) == [k |-> "plain", n |-> n, args |-> <<>>, meta |-> <<>>]
NoneType == [k |-> "none", n |-> <<>>, args |-> <<>>, meta |-> <<>>]
StrRef(n) == [k |-> "str", n |-> n, args |-> <<>>, meta |-> <<>>]

\* typing.Annotated[(t, *meta)]: nested annotations are flattened
Annotated(t, meta) ==
    IF t.k = "ann"
    THEN [k |-> "ann", n |-> <<>>, args |-> t.args, meta |-> t.meta \o meta]
    ELSE [k |-> "ann", n |-> <<>>, args |-> <<t>>, meta |-> meta]

\* typing's _remove_dups_flatten: members that are unions are spliced in
RECURSIVE FlattenUnion(_)
FlattenUnion(ts) ==
    IF Len(ts) = 0 THEN <<>>
    ELSE (IF Head(ts).k = "union" THEN Head(ts).args ELSE <<Head(ts)>>)
         \o FlattenUnion(Tail(ts))

\* ... and a member equal to an earlier one is dropped
RECURSIVE RemoveDups(_)
RemoveDups(ts) ==
    IF Len(ts) = 0 THEN <<>>
    ELSE LET init == RemoveDups(SubSeq(ts, 1, Len(ts) - 1))
             last == ts[Len(ts)]
         IN  IF \E i \in 1..Len(init) : init[i] = last THEN init ELSE Append(init, last)

\* typing.Union[tuple(ts)]: a union of one member is that member
Union(ts) ==
    LET members == RemoveDups(FlattenUnion(ts))
    IN  IF Len(members) = 1 THEN members[1]
        ELSE [k |-> "union", n |-> <<>>, args |-> members, meta |-> <<>>]

\* typing.Optional[t]
Optional(t) == Union(<<t, NoneType>>)

is_type_annotated(t) == t.k = "ann"

unwrap_annotated_type(t) == IF t.k = "ann" THEN t.args[1] ELSE t

is_type_optional(t) ==
    LET u == unwrap_annotated_type(t)
    IN  u.k = "union" /\ \E i \in 1..Len(u.args) : u.args[i] = NoneType

is_type_union(t) ==
    LET u == unwrap_annotated_type(t)
    IN  u.k = "union"
        /\ (Len(u.args) > 2 \/ ~ \E i \in 1..Len(u.args) : u.args[i] = NoneType)

unwrap_optional_type(t) ==
    LET u == unwrap_annotated_type(t)
        inner == Union(SelectSeq(u.args, LAMBDA m : m # NoneType))
    IN  IF t.k = "ann" THEN Annotated(inner, t.meta) ELSE inner

unwrap_union_types(t) == t.args

\* strong_typing.name.python_type_to_str(t, use_union_operator=True)
RECURSIVE python_type_to_str(_)
python_type_to_str(t) ==
    CASE t.k = "none" -> <<"N", "o", "n", "e">>
      [] t.k = "plain" -> t.n
      [] t.k = "str" -> t.n
      [] t.k = "ann" ->
            Cat3(<<"A", "n", "n", "o", "t", "a", "t", "e", "d", "[">>,
                 python_type_to_str(t.args[1]) \o <<",", " ">> \o Join(<<",", " ">>, t.meta),
                 <<"]">>)
      [] t.k = "union" ->
            Join(<<" ", "|", " ">>, [i \in 1..Len(t.args) |-> python_type_to_str(t.args[i])])

----------------------------------------------------------------------------
(* TypeTransform *)

NoError == [type |-> "none", msg |-> <<>>]

\* TypeTransform.__init__: the table is keyed by the canonical string of the source type
TypeTransformInit(pairs) ==
    [key \in {python_type_to_str(p[1]) : p \in pairs} |->
        (CHOOSE p \in pairs : python_type_to_str(p[1]) = key)[2]]

RECURSIVE TypeTransform(_, _)

\* a variant that returns the transformed type without its metadata
TransformAnnotatedBare(table, arg_type) ==
    TypeTransform(table, arg_type.args[1]).value

\* the annotated branch of __call__: the metadata objects are re-attached
TransformAnnotated(table, arg_type) ==
    LET annotated_type == arg_type.args[1]
        annotation_objects == arg_type.meta
        transformed_type == TypeTransform(table, annotated_type).value
    IN  Annotated(transformed_type, annotation_objects)

\* the optional branch of __call__
TransformOptional(table, arg_type) ==
    LET optional_type == unwrap_optional_type(arg_type)
    IN  Optional(TypeTransform(table, optional_type).value)

\* a variant that rebuilds the union from the members in reverse order
TransformUnionReversed(table, arg_type) ==
    LET union_types == unwrap_union_types(unwrap_annotated_type(arg_type))
        n == Len(union_types)
    IN  Union([i \in 1..n |-> TypeTransform(table, union_types[n + 1 - i]).value])

\* the union branch of __call__
TransformUnion(table, arg_type) ==
    LET union_type == unwrap_annotated_type(arg_type)
        union_types == unwrap_union_types(union_type)
    IN  Union([i \in 1..Len(union_types) |-> TypeTransform(table, union_types[i]).value])

\* a variant that decomposes the type before it looks it up
TypeTransformStructureFirst(table, arg_type) ==
    IF is_type_annotated(arg_type)
    THEN [raised |-> NoError, value |-> TransformAnnotated(table, arg_type)]
    ELSE IF is_type_optional(arg_type)
    THEN [raised |-> NoError, value |-> TransformOptional(table, arg_type)]
    ELSE IF is_type_union(arg_type)
    THEN [raised |-> NoError, value |-> TransformUnion(table, arg_type)]
    ELSE IF python_type_to_str(arg_type) \in DOMAIN table
    THEN [raised |-> NoError, value |-> table[python_type_to_str(arg_type)]]
    ELSE [raised |-> NoError, value |-> arg_type]

\* TypeTransform.__call__
TypeTransform(table, arg_type) ==
    IF arg_type.k = "str"
    THEN [raised |-> [type |-> "TypeError", msg |-> <<"expected: evaluated type; got: ", BQ, "str", BQ>>],
          value |-> arg_type]
    ELSE IF python_type_to_str(arg_type) \in DOMAIN table
    THEN [raised |-> NoError, value |-> table[python_type_to_str(arg_type)]]
    ELSE IF is_type_annotated(arg_type)
    THEN [raised |-> NoError, value |-> TransformAnnotated(table, arg_type)]
    ELSE IF is_type_optional(arg_type)
    THEN [raised |-> NoError, value |-> TransformOptional(table, arg_type)]
    ELSE IF is_type_union(arg_type)
    THEN [raised |-> NoError, value |-> TransformUnion(table, arg_type)]
    ELSE [raised |-> NoError, value |-> arg_type]

----------------------------------------------------------------------------
(* DocstringProcessor *)

\* Symbols(): the two glyphs, named here by their code points
Symbols == [primary_key |-> "U+1F511", unique_constraint |-> "U+25C9"]

\* DocstringProcessor._python_type_to_str
_python_type_to_str(table, arg_type) ==
    python_type_to_str(TypeTransform(table, arg_type).value)

ParamTag == <<":", "p", "a", "r", "a", "m">>

NoMatch == [ok |-> FALSE, g1 |-> <<>>, g2 |-> <<>>]

\* param_expr.match(line) for ^:param\s+([^:]+):(.*)$ ; g1 and g2 are the two groups.
\* \s+ takes the run of whitespace after the tag, [^:]+ everything up to the first
\* colon; when only whitespace precedes that colon, \s+ gives its last character back.
param_expr_match(line) ==
    IF ~StartsWith(line, ParamTag) THEN NoMatch
    ELSE LET s == SubSeq(line, Len(ParamTag) + 1, Len(line))
             colons == {i \in 1..Len(s) : s[i] = ":"}
         IN  IF colons = {} \/ s[1] \notin Whitespace THEN NoMatch
             ELSE LET c == CHOOSE i \in colons : \A j \in colons : i <= j
                      ws == CHOOSE k \in 1..(c - 1) :
                                /\ \A j \in 1..k : s[j] \in Whitespace
                                /\ (k = c - 1 \/ s[k + 1] \notin Whitespace)
                  IN  IF ws < c - 1
                      THEN [ok |-> TRUE, g1 |-> SubSeq(s, ws + 1, c - 1),
                            g2 |-> SubSeq(s, c + 1, Len(s))]
                      ELSE IF ws >= 2
                      THEN [ok |-> TRUE, g1 |-> SubSeq(s, c - 1, c - 1),
                            g2 |-> SubSeq(s, c + 1, Len(s))]
                      ELSE NoMatch

\* MissingFieldError(f"param `{field_name}` is not declared as a field in the class `{name}`")
MissingFieldError(field_name, name) ==
    [type |-> "MissingFieldError",
     msg |-> <<"param ", BQ>> \o field_name
             \o <<BQ, " is not declared as a field in the class ", BQ>> \o name \o <<BQ>>]

\* DocstringProcessor._transform_field
_transform_field(table, field_type, text) ==
    <<_python_type_to_str(table, field_type), text>>

\* a variant that joins a slot for each flag, set or not
_transform_column_slots(table, syms, prop, text) ==
    LET source_type == IF prop.nullable THEN Optional(prop.field_type) ELSE prop.field_type
        pieces == << IF prop.is_primary THEN <<syms.primary_key>> ELSE <<>>,
                     IF prop.is_unique THEN <<syms.unique_constraint>> ELSE <<>>,
                     text >>
    IN  <<_python_type_to_str(table, source_type), Join(SP, pieces)>>

\* DocstringProcessor._transform_column
_transform_column(table, syms, prop, text) ==
    LET source_type == IF prop.nullable THEN Optional(prop.field_type) ELSE prop.field_type
        field_type == _python_type_to_str(table, source_type)
        pieces == (IF prop.is_primary THEN <<<<syms.primary_key>>>> ELSE <<>>)
                  \o (IF prop.is_unique THEN <<<<syms.unique_constraint>>>> ELSE <<>>)
                  \o <<text>>
    IN  <<field_type, Join(SP, pieces)>>

\* the transform callable handed to _process_object
ApplyTransform(transform, table, syms, prop, text) ==
    IF transform = "_transform_column"
    THEN _transform_column(table, syms, prop, text)
    ELSE _transform_field(table, prop, text)

\* f":param {field_type} {field_name}: {text}"
RewrittenLine(field_type, field_name, text) ==
    ParamTag \o SP \o field_type \o SP \o field_name \o <<":", " ">> \o text

\* the loop of _process_object from line `index` on; buf is the buffer so far
RECURSIVE _process_object_from(_, _, _, _, _, _, _)
_process_object_from(index, name, props, buf, transform, table, syms) ==
    IF index > Len(buf) THEN [lines |-> buf, raised |-> NoError]
    ELSE LET match == param_expr_match(buf[index])
         IN  IF ~match.ok
             THEN _process_object_from(index + 1, name, props, buf, transform, table, syms)
             ELSE IF match.g1 \notin DOMAIN props
             THEN [lines |-> buf, raised |-> MissingFieldError(match.g1, name)]
             ELSE LET r == ApplyTransform(transform, table, syms, props[match.g1], match.g2)
                  IN  _process_object_from(index + 1, name, props,
                          [buf EXCEPT ![index] = RewrittenLine(r[1], match.g1, r[2])],
                          transform, table, syms)

\* a variant that restores the buffer when it raises
_process_object_rollback(name, props, buf, transform, table, syms) ==
    LET r == _process_object_from(1, name, props, buf, transform, table, syms)
    IN  IF r.raised = NoError THEN r ELSE [r EXCEPT !.lines = buf]

\* DocstringProcessor._process_object
_process_object(name, props, buf, transform, table, syms) ==
    _process_object_from(1, name, props, buf, transform, table, syms)

\* a variant that leaves the options alone
process_enum_noop(opts) == opts

\* DocstringProcessor.process_enum
process_enum(opts) ==
    [o \in DOMAIN opts \cup {"undoc-members"} |->
        IF o = "undoc-members" THEN TRUE ELSE opts[o]]

Fence == <<BQ, BQ, BQ>>

Directive == <<".", ".", " ", "c", "o", "d", "e", "-", "b", "l", "o", "c", "k", ":", ":", " ">>

\* a variant with a narrower indentation
IndentTwo == <<" ", " ">>

Indent == <<" ", " ", " ", " ">>

\* the loop of process_codeblock over the lines not yet read
RECURSIVE process_codeblock_from(_, _, _)
process_codeblock_from(source, target_lines, code_block) ==
    IF Len(source) = 0 THEN target_lines
    ELSE LET source_line == Head(source)
         IN  IF ~code_block
             THEN IF StartsWith(source_line, Fence)
                  THEN process_codeblock_from(Tail(source),
                           target_lines
                               \o <<Directive \o SubSeq(source_line, Len(Fence) + 1, Len(source_line)),
                                    <<>>>>,
                           TRUE)
                  ELSE process_codeblock_from(Tail(source), Append(target_lines, source_line), FALSE)
             ELSE IF StartsWith(source_line, Fence)
                  THEN process_codeblock_from(Tail(source), target_lines, FALSE)
                  ELSE process_codeblock_from(Tail(source),
                           Append(target_lines, Indent \o source_line), TRUE)

\* a variant that leaves a buffer with an unclosed fence as it is
process_codeblock_closed_only(buf) ==
    IF Cardinality({i \in 1..Len(buf) : StartsWith(buf[i], Fence)}) % 2 = 1
    THEN buf
    ELSE process_codeblock_from(buf, <<>>, FALSE)

\* DocstringProcessor.process_codeblock
process_codeblock(buf) == process_codeblock_from(buf, <<>>, FALSE)

\* a variant that processes the fields before it reformats the code blocks
DocstringProcessorCallFieldsFirst(table, syms, what, obj, opts, buf) ==
    LET is_enum == what = "class" /\ obj.is_enum
        is_table == what = "class" /\ obj.is_dataclass /\ obj.has_primary_key
        r == IF is_enum \/ what \notin {"class", "exception", "function", "method"}
             THEN [lines |-> buf, raised |-> NoError]
             ELSE IF is_table
             THEN _process_object(obj.name, obj.columns, buf, "_transform_column", table, syms)
             ELSE _process_object(obj.name, obj.fields, buf, "_transform_field", table, syms)
    IN  [options |-> IF is_enum THEN process_enum(opts) ELSE opts,
         lines |-> IF r.raised = NoError THEN process_codeblock(r.lines) ELSE r.lines,
         raised |-> r.raised]

\* DocstringProcessor.__call__; obj carries what introspection finds on the object
DocstringProcessorCall(table, syms, what, obj, opts, buf) ==
    LET formatted == process_codeblock(buf)
        fields == _process_object(obj.name, obj.fields, formatted, "_transform_field", table, syms)
        columns == _process_object(obj.name, obj.columns, formatted, "_transform_column", table, syms)
        untouched == [lines |-> formatted, raised |-> NoError]
    IN  IF what = "class"
        THEN IF obj.is_enum
             THEN [options |-> process_enum(opts)] @@ untouched
             ELSE IF obj.is_dataclass
             THEN IF obj.has_primary_key
                  THEN [options |-> opts] @@ columns
                  ELSE [options |-> opts] @@ fields
             ELSE [options |-> opts] @@ fields
        ELSE IF what = "exception"
        THEN [options |-> opts] @@ fields
        ELSE IF what \in {"function", "method"}
        THEN [options |-> opts] @@ fields
        ELSE [options |-> opts] @@ untouched

\* a variant that takes every leading underscore for a private name
skip_member_any_underscore(what, name, is_routine, doc, skip) ==
    IF is_routine
    THEN IF StartsWith(name, <<"_">>)
         THEN "True"
         ELSE IF doc.present /\ Len(doc.text) > 0
         THEN "False"
         ELSE "None"
    ELSE "None"

\* skip_member; is_routine is inspect.isroutine(obj), doc is getattr(obj, "__doc__", None):
\* [present |-> FALSE] for None, else the string
skip_member(what, name, is_routine, doc, skip) ==
    IF is_routine
    THEN IF StartsWith(name, <<"_">>) /\ ~StartsWith(name, <<"_", "_">>)
         THEN "True"
         ELSE IF doc.present /\ Len(doc.text) > 0
         THEN "False"
         ELSE "None"
    ELSE "None"

----------------------------------------------------------------------------
(* The inputs the model draws from *)

MaxUnion == 3       \* members of a union handed to the type mapper
MaxLines == 3       \* lines of a buffer handed to the field processor or to __call__
MaxCodeLines == 4   \* lines of a buffer handed to the code-block reformatter

int == PlainType(<<"i", "n", "t">>)
A == PlainType(<<"A">>)
B == PlainType(<<"B">>)
C == PlainType(<<"C">>)
M1 == <<"m">>
M2 == <<"n">>

\* the type_transform dictionaries a processor is constructed with
Tables ==
    { {},
      {<<A, int>>, <<B, int>>},
      {<<A, Union(<<B, C>>)>>},
      {<<A, B>>, <<B, C>>, <<Optional(A), B>>, <<Union(<<A, B>>), C>>, <<Annotated(A, <<M1>>), C>>},
      {<<A, Annotated(B, <<M2>>)>>, <<B, C>>} }

UnionMembers == {A, B, C, NoneType}

\* tuples of n distinct members
DistinctTuples(n) ==
    {t \in [1..n -> UnionMembers] : \A i, j \in 1..n : i # j => t[i] # t[j]}

Unions == {Union(t) : t \in UNION {DistinctTuples(n) : n \in 2..MaxUnion}}

TypePool ==
    UnionMembers \cup Unions
    \cup {Annotated(t, <<M1>>) : t \in {A, B, C} \cup {Union(t) : t \in DistinctTuples(2)}}
    \cup {Union(<<Annotated(A, <<M1>>), B>>), StrRef(<<"A">>)}

Buffers(pool, n) == UNION {[1..k -> pool] : k \in 0..n}

TextD == <<"d">>
NameX == <<"x">>
NameY == <<"y">>

ParamLines ==
    { ParamTag \o <<" ", "x", ":", " ", "d">>,
      ParamTag \o <<" ", "y", ":", "d">>,
      ParamTag \o <<" ", "z", ":", " ", "d">>,
      ParamTag \o <<" ", "\t", "x", ":", " ", "d", ":", "e">>,
      ParamTag \o <<" ", "x", " ", ":", " ", "d">>,
      ParamTag \o <<" ", " ", ":", "d">>,
      ParamTag \o <<" ", "x">>,
      <<"d">> }

CodeLines ==
    { Fence \o <<"p", "y">>,
      Fence,
      <<"d">>,
      <<" ", "e">>,
      ParamTag \o <<" ", "z", ":", " ", "d">> }

DocLines ==
    { ParamTag \o <<" ", "x", ":", " ", "d">>,
      ParamTag \o <<" ", "z", ":", " ", "d">>,
      Fence \o <<"p", "y">>,
      Fence,
      <<"d">> }

Column(t, nullable, is_primary, is_unique) ==
    [field_type |-> t, nullable |-> nullable, is_primary |-> is_primary, is_unique |-> is_unique]

\* what introspection yields for a documented object: __name__, the class tests of
\* __call__, the name -> type table and the name -> FieldProperties table
Entity(name, is_enum, is_dataclass, has_primary_key) ==
    [name |-> name, is_enum |-> is_enum, is_dataclass |-> is_dataclass,
     has_primary_key |-> has_primary_key,
     fields |-> (NameX :> int) @@ (NameY :> A),
     columns |-> (NameX :> Column(int, FALSE, TRUE, FALSE)) @@ (NameY :> Column(A, TRUE, FALSE, TRUE))]

Point == Entity(<<"P", "o", "i", "n", "t">>, FALSE, FALSE, FALSE)
Record == Entity(<<"R", "e", "c">>, FALSE, TRUE, FALSE)
Table == Entity(<<"T", "a", "b">>, FALSE, TRUE, TRUE)
Color == Entity(<<"C", "o", "l">>, TRUE, FALSE, FALSE)
ColorRecord == Entity(<<"C", "R">>, TRUE, TRUE, TRUE)
Func == Entity(<<"f">>, FALSE, FALSE, FALSE)

\* the (what, obj) pairs autodoc delivers
Events ==
    ({"class"} \X {Point, Record, Table, Color, ColorRecord})
    \cup ({"exception"} \X {Point})
    \cup ({"function", "method"} \X {Func})
    \cup ({"module", "attribute"} \X {Point})

OptionSets == { <<>>, ("undoc-members" :> FALSE) @@ ("show-inheritance" :> TRUE) }

MemberNames ==
    { <<"_", "_", "e", "q", "_", "_">>, <<"_", "h">>, <<"_", "_", "w", "_", "_">>,
      <<"r", "u", "n">>, <<"_">>, <<"_", "_">>, <<"_", "_", "_", "x">> }

Docs == { [present |-> FALSE, text |-> <<>>], [present |-> TRUE, text |-> <<>>],
          [present |-> TRUE, text |-> <<"d">>] }

Columns == {Column(t, n, p, u) : t \in {int, A, Optional(B)}, n \in BOOLEAN, p \in BOOLEAN, u \in BOOLEAN}

Texts == { <<>>, <<"d">>, <<" ", "d">> }

----------------------------------------------------------------------------
(* The state machine: the host constructs one processor, then delivers     *)
(* events one at a time; each callback runs to its return or its raise.    *)

NoArg == [none |-> TRUE]

\* DocstringProcessor.__init__
Init ==
    /\ type_transform \in {TypeTransformInit(t) : t \in Tables}
    /\ symbols = Symbols
    /\ pc = "idle"
    /\ op = "none"
    /\ arg = NoArg
    /\ lines = <<>>
    /\ options = <<>>
    /\ ret = "None"
    /\ raised = NoError

Finish(o, a, l, opts, r, e) ==
    /\ pc' = "done"
    /\ op' = o
    /\ arg' = a
    /\ lines' = l
    /\ options' = opts
    /\ ret' = r
    /\ raised' = e
    /\ UNCHANGED <<type_transform, symbols>>

\* self.type_transform(arg_type)
CallTypeTransform ==
    /\ pc = "idle"
    /\ \E t \in TypePool :
           LET r == TypeTransform(type_transform, t)
           IN  Finish("TypeTransform", [arg_type |-> t], <<>>, <<>>,
                      IF r.raised = NoError THEN r.value ELSE "None", r.raised)

\* self._transform_column(prop, text)
CallTransformColumn ==
    /\ pc = "idle"
    /\ \E prop \in Columns, text \in Texts :
           Finish("_transform_column", [prop |-> prop, text |-> text], <<>>, <<>>,
                  _transform_column(type_transform, symbols, prop, text), NoError)

\* self._process_object(name, props, lines, transform)
CallProcessObject ==
    /\ pc = "idle"
    /\ \E obj \in {Point, Table}, buf \in Buffers(ParamLines, MaxLines) :
           LET transform == IF obj.has_primary_key THEN "_transform_column" ELSE "_transform_field"
               props == IF obj.has_primary_key THEN obj.columns ELSE obj.fields
               r == _process_object(obj.name, props, buf, transform, type_transform, symbols)
           IN  Finish("_process_object",
                      [name |-> obj.name, props |-> props, lines |-> buf, transform |-> transform],
                      r.lines, <<>>, "None", r.raised)

\* self.process_codeblock(lines)
CallProcessCodeblock ==
    /\ pc = "idle"
    /\ \E buf \in Buffers(CodeLines, MaxCodeLines) :
           Finish("process_codeblock", [lines |-> buf], process_codeblock(buf), <<>>, "None", NoError)

\* the autodoc-process-docstring event: DocstringProcessor.__call__
ProcessDocstring ==
    /\ pc = "idle"
    /\ \E ev \in Events, opts \in OptionSets, buf \in Buffers(DocLines, MaxLines) :
           LET r == DocstringProcessorCall(type_transform, symbols, ev[1], ev[2], opts, buf)
           IN  Finish("__call__", [what |-> ev[1], obj |-> ev[2], options |-> opts, lines |-> buf],
                      r.lines, r.options, "None", r.raised)

\* the autodoc-skip-member event: skip_member
SkipMember ==
    /\ pc = "idle"
    /\ \E what \in {"class", "module"}, name \in MemberNames, is_routine \in BOOLEAN,
          doc \in Docs, skip \in BOOLEAN :
           Finish("skip_member",
                  [what |-> what, name |-> name, is_routine |-> is_routine, doc |-> doc, skip |-> skip],
                  <<>>, <<>>, skip_member(what, name, is_routine, doc, skip), NoError)

\* the callback is over; the host goes on to its next event
NextEvent ==
    /\ pc = "done"
    /\ pc' = "idle"
    /\ op' = "none"
    /\ arg' = NoArg
    /\ lines' = <<>>
    /\ options' = <<>>
    /\ ret' = "None"
    /\ raised' = NoError
    /\ UNCHANGED <<type_transform, symbols>>

Next ==
    \/ CallTypeTransform
    \/ CallTransformColumn
    \/ CallProcessObject
    \/ CallProcessCodeblock
    \/ ProcessDocstring
    \/ SkipMember
    \/ NextEvent

Spec == Init /\ [][Next]_vars

----------------------------------------------------------------------------
(* Properties *)

Min(S) == CHOOSE i \in S : \A j \in S : i <= j
Max(S) == CHOOSE i \in S : \A j \in S : i >= j

Contains(s, sub) ==
    \E i \in 0..(Len(s) - Len(sub)) : SubSeq(s, i + 1, i + Len(sub)) = sub

Done(o) == pc = "done" /\ op = o

\* `:param <name>: <text>` exactly: the tag, one space, the name, a colon, one space
PlainParamPrefix(name) == <<":", "p", "a", "r", "a", "m", " ">> \o name \o <<":", " ">>

\* C1: _process_object with the plain field transform replaces every line
\* `:param <name>: <text>` whose name is a field by exactly
\* `:param <rendered-type> <name>: <text>`, no character added or removed.
C1_ParamLineRewrittenExactly ==
    (Done("_process_object") /\ arg.transform = "_transform_field" /\ raised = NoError) =>
        \A i \in 1..Len(arg.lines) : \A name \in DOMAIN arg.props :
            StartsWith(arg.lines[i], PlainParamPrefix(name)) =>
                lines[i] = <<":", "p", "a", "r", "a", "m", " ">>
                           \o _python_type_to_str(type_transform, arg.props[name])
                           \o <<" ">> \o name \o <<":", " ">>
                           \o SubSeq(arg.lines[i], Len(PlainParamPrefix(name)) + 1, Len(arg.lines[i]))

\* the lines of a buffer that match the parameter-tag pattern and name no field
MissingLines(buf, props) ==
    {i \in 1..Len(buf) : param_expr_match(buf[i]).ok /\ param_expr_match(buf[i]).g1 \notin DOMAIN props}

\* C2: when some parameter-tag line names a field absent from the table, _process_object
\* raises MissingFieldError naming that field and the entity, at the first such line; no
\* line at or after it is modified, and the matching lines before it stay rewritten.
C2_MissingFieldRaisedAtFirstLine ==
    Done("_process_object") =>
        LET missing == MissingLines(arg.lines, arg.props)
        IN  /\ Len(lines) = Len(arg.lines)
            /\ (missing = {}) = (raised = NoError)
            /\ missing # {} =>
                LET first == Min(missing)
                    field == param_expr_match(arg.lines[first]).g1
                IN  /\ raised.type = "MissingFieldError"
                    /\ Contains(raised.msg, <<BQ>> \o field \o <<BQ>>)
                    /\ Contains(raised.msg, <<BQ>> \o arg.name \o <<BQ>>)
                    /\ \A j \in first..Len(lines) : lines[j] = arg.lines[j]
                    /\ \A j \in 1..(first - 1) :
                        IF param_expr_match(arg.lines[j]).ok
                        THEN /\ lines[j] # arg.lines[j]
                             /\ StartsWith(lines[j], <<":", "p", "a", "r", "a", "m", " ">>)
                             /\ Contains(lines[j],
                                    <<" ">> \o param_expr_match(arg.lines[j]).g1 \o <<":", " ">>)
                        ELSE lines[j] = arg.lines[j]

\* C2 witness: the error was raised at the second line, after the first line was
\* rewritten and before a third line that matches the pattern too.
C2_Witness ==
    /\ Done("_process_object")
    /\ raised.type = "MissingFieldError"
    /\ Len(arg.lines) = 3
    /\ Min(MissingLines(arg.lines, arg.props)) = 2
    /\ param_expr_match(arg.lines[3]).ok
    /\ lines[1] # arg.lines[1]
    /\ lines[3] = arg.lines[3]

IsFenceLine(l) == Len(l) >= 3 /\ l[1] = BQ /\ l[2] = BQ /\ l[3] = BQ

FenceLines(buf) == {i \in 1..Len(buf) : IsFenceLine(buf[i])}

\* the opening fence that no later fence closes, 0 when every block is closed
UnterminatedFence(buf) ==
    IF Cardinality(FenceLines(buf)) % 2 = 1 THEN Max(FenceLines(buf)) ELSE 0

FourSpaces == <<" ", " ", " ", " ">>

\* `.. code-block:: <language>` for the opening fence line l
DirectiveFor(l) ==
    <<".", ".", " ", "c", "o", "d", "e", "-", "b", "l", "o", "c", "k", ":", ":", " ">>
    \o SubSeq(l, 4, Len(l))

\* a buffer whose blocks are all closed, block by block: directive, empty line, the
\* content indented, the closing fence dropped; the other lines as they are
RECURSIVE BlocksReplaced(_)
BlocksReplaced(buf) ==
    IF Len(buf) = 0 THEN <<>>
    ELSE IF ~IsFenceLine(buf[1]) THEN <<buf[1]>> \o BlocksReplaced(Tail(buf))
    ELSE LET close == Min({i \in 2..Len(buf) : IsFenceLine(buf[i])})
         IN  <<DirectiveFor(buf[1]), <<>>>>
             \o [i \in 1..(close - 2) |-> FourSpaces \o buf[i + 1]]
             \o BlocksReplaced(SubSeq(buf, close + 1, Len(buf)))

\* C3: process_codeblock replaces each fenced block (opening fence, content, closing
\* fence) by the directive line, an empty line and the content indented by four spaces,
\* the closing fence dropped; the lines outside the blocks pass through, in order.
C3_FencedBlocksReplaced ==
    Done("process_codeblock") =>
        LET u == UnterminatedFence(arg.lines)
            closed == IF u = 0 THEN arg.lines ELSE SubSeq(arg.lines, 1, u - 1)
            expect == BlocksReplaced(closed)
        IN  /\ raised = NoError
            /\ Len(lines) >= Len(expect)
            /\ SubSeq(lines, 1, Len(expect)) = expect
            /\ u = 0 => lines = expect

\* C3 witness: a line, then a closed block of one content line
C3_Witness ==
    /\ Done("process_codeblock")
    /\ arg.lines = << <<"d">>, <<BQ, BQ, BQ, "p", "y">>, <<"d">>, <<BQ, BQ, BQ>> >>
    /\ lines = << <<"d">>, DirectiveFor(<<BQ, BQ, BQ, "p", "y">>), <<>>, <<" ", " ", " ", " ", "d">> >>

\* C4: with an opening fence that nothing closes, process_codeblock returns normally
\* and emits every line after the fence as content, indented by four spaces, after the
\* directive line and the empty line; none is dropped or left unindented.
C4_UnterminatedFenceAbsorbs ==
    (Done("process_codeblock") /\ UnterminatedFence(arg.lines) # 0) =>
        LET u == UnterminatedFence(arg.lines)
            n == Len(arg.lines) - u
            start == Len(lines) - n
        IN  /\ raised = NoError
            /\ start >= 2
            /\ lines[start - 1] = DirectiveFor(arg.lines[u])
            /\ lines[start] = <<>>
            /\ \A j \in 1..n : lines[start + j] = FourSpaces \o arg.lines[u + j]

\* C4 witness: an unterminated fence followed by two lines
C4_Witness ==
    /\ Done("process_codeblock")
    /\ UnterminatedFence(arg.lines) = 2
    /\ Len(arg.lines) = 4
    /\ Len(lines) = 5

RECURSIVE LeadingUnderscores(_)
LeadingUnderscores(name) ==
    IF Len(name) > 0 /\ name[1] = "_" THEN 1 + LeadingUnderscores(Tail(name)) ELSE 0

\* C5: skip_member decides from callability, name and description alone: a non-callable
\* defers (None); a callable whose name starts with exactly one underscore is excluded
\* (True); any other callable with a non-empty description is included (False); the
\* rest defer (None).
C5_SkipMemberDecision ==
    Done("skip_member") =>
        ret = IF ~arg.is_routine THEN "None"
              ELSE IF LeadingUnderscores(arg.name) = 1 THEN "True"
              ELSE IF arg.doc.present /\ arg.doc.text # <<>> THEN "False"
              ELSE "None"

\* C5 witness: a documented dunder method is included
C5_Witness ==
    /\ Done("skip_member")
    /\ arg.is_routine
    /\ LeadingUnderscores(arg.name) = 2
    /\ arg.doc.text # <<>>
    /\ ret = "False"

IsKey(t) == python_type_to_str(t) \in DOMAIN type_transform

Replacement(t) == type_transform[python_type_to_str(t)]

\* C6: the exact-match lookup comes before any decomposition, at every level: a type
\* whose canonical string is a key yields the mapped replacement verbatim, also when the
\* replacement is a key itself and when the type is an optional or a union.
C6_ExactMatchFirstVerbatim ==
    (Done("TypeTransform") /\ arg.arg_type.k # "str") =>
        LET t == arg.arg_type
        IN  /\ IsKey(t) => (raised = NoError /\ ret = Replacement(t))
            /\ (~IsKey(t) /\ t.k = "union" /\ Len(t.args) = 2 /\ t.args[2] = NoneType
                    /\ IsKey(t.args[1]))
                => ret = Optional(Replacement(t.args[1]))

\* C6 witness: an optional type that is a key, its member is a key, and so is the replacement
C6_Witness ==
    /\ Done("TypeTransform")
    /\ arg.arg_type = Optional(A)
    /\ IsKey(arg.arg_type)
    /\ IsKey(A)
    /\ IsKey(ret)
    /\ ret = B

\* C7 as stated: substituting Annotated[X, meta] under a table that maps X yields the
\* replacement of X without metadata.
C7_AnnotatedYieldsBareReplacement ==
    (Done("TypeTransform") /\ arg.arg_type.k = "ann" /\ IsKey(arg.arg_type.args[1])) =>
        ret = Replacement(arg.arg_type.args[1])

\* C7 amended: substituting Annotated[X, meta], not itself a key, under a table that
\* maps X yields Annotated[replacement of X, meta]: the metadata is re-attached.
C7_AnnotatedKeepsMetadata ==
    (Done("TypeTransform") /\ arg.arg_type.k = "ann" /\ ~IsKey(arg.arg_type)
            /\ IsKey(arg.arg_type.args[1])) =>
        LET r == Replacement(arg.arg_type.args[1])
        IN  /\ raised = NoError
            /\ ret.k = "ann"
            /\ ret.args = (IF r.k = "ann" THEN r.args ELSE <<r>>)
            /\ ret.meta = (IF r.k = "ann" THEN r.meta ELSE <<>>) \o arg.arg_type.meta

\* C7 witness: Annotated[A, m] under a table that maps A and not Annotated[A, m]
C7_Witness ==
    /\ Done("TypeTransform")
    /\ arg.arg_type = Annotated(A, <<M1>>)
    /\ IsKey(A)
    /\ ~IsKey(arg.arg_type)
    /\ ret.k = "ann"
    /\ ret.meta = <<M1>>

Substituted(t) == TypeTransform(type_transform, t).value

HasNone(t) == \E i \in 1..Len(t.args) : t.args[i] = NoneType

RECURSIVE Normalised(_)
Normalised(ts) ==
    IF Len(ts) = 0 THEN <<>>
    ELSE LET init == Normalised(SubSeq(ts, 1, Len(ts) - 1))
             last == ts[Len(ts)]
             more == IF last.k = "union" THEN last.args ELSE <<last>>
         IN  init \o SelectSeq(more, LAMBDA m : ~ \E i \in 1..Len(init) : init[i] = m)

C9_ColumnTypeAndGlyphs ==
    Done("_transform_column") =>
        LET prop == arg.prop
            rendered == IF prop.nullable
                        THEN Union(<<prop.field_type, NoneType>>)
                        ELSE prop.field_type
        IN  /\ ret[1] = python_type_to_str(Substituted(rendered))
            /\ ret[2] = (IF prop.is_primary THEN <<"U+1F511", " ">> ELSE <<>>)
                        \o (IF prop.is_unique THEN <<"U+25C9", " ">> ELSE <<>>)
                        \o arg.text

\* C9 witness: a nullable primary key that is not unique, described as `d`
C9_Witness ==
    /\ Done("_transform_column")
    /\ arg.prop = Column(int, TRUE, TRUE, FALSE)
    /\ arg.text = <<"d">>
    /\ ret = << <<"i", "n", "t", " ", "|", " ", "N", "o", "n", "e">>, <<"U+1F511", " ", "d">> >>

\* C10: on a "class" event for an enumeration no parameter-tag line is rewritten,
\* MissingFieldError is not raised whatever the tag lines name, "undoc-members" is set
\* to true, and the buffer changes by the code-block reformatting alone; the enumeration
\* test comes before the record and plain-class branches.
C10_EnumBypassesFields ==
    (Done("__call__") /\ arg.what = "class" /\ arg.obj.is_enum) =>
        /\ raised = NoError
        /\ "undoc-members" \in DOMAIN options
        /\ options["undoc-members"] = TRUE
        /\ \A o \in DOMAIN arg.options \ {"undoc-members"} :
               o \in DOMAIN options /\ options[o] = arg.options[o]
        /\ lines = process_codeblock(arg.lines)
        /\ FenceLines(arg.lines) = {} => lines = arg.lines

\* C10 witness: an enumeration that is a record with a primary key as well, documented
\* with a tag line that names no field
C10_Witness ==
    /\ Done("__call__")
    /\ arg.what = "class"
    /\ arg.obj.is_enum /\ arg.obj.is_dataclass /\ arg.obj.has_primary_key
    /\ \E i \in 1..Len(arg.lines) :
          /\ param_expr_match(arg.lines[i]).ok
          /\ param_expr_match(arg.lines[i]).g1 \notin DOMAIN arg.obj.columns
    /\ FenceLines(arg.lines) = {}
    /\ lines = arg.lines

\* line i of buf is content of a fenced block, closed or not
InBlock(buf, i) ==
    /\ ~IsFenceLine(buf[i])
    /\ Cardinality({k \in FenceLines(buf) : k < i}) % 2 = 1

\* the fences of buf that open a block
OpeningFences(buf) ==
    {k \in FenceLines(buf) : Cardinality({j \in FenceLines(buf) : j < k}) % 2 = 0}

\* where the reformatter puts line i of buf, a line that is no fence: every line
\* before it that is no fence takes one line, every opening fence two, a closing fence none
ReformattedIndex(buf, i) ==
    Cardinality({j \in 1..i : ~IsFenceLine(buf[j])})
    + 2 * Cardinality({k \in OpeningFences(buf) : k < i})

\* the field table __call__ hands to _process_object for the event
EventProps(what, obj) ==
    IF what = "class" /\ obj.is_dataclass /\ obj.has_primary_key
    THEN obj.columns
    ELSE obj.fields

\* C11: on every documentation event the code blocks are reformatted before any field
\* is processed: a line `:param <name>: ...` inside a fenced block, closed or not, comes
\* out indented by four spaces and otherwise as it was, without a type string, and it
\* raises no MissingFieldError, also when <name> is no field of the entity.
C11_ReformatBeforeFields ==
    Done("__call__") =>
        /\ \A i \in 1..Len(arg.lines) :
               (InBlock(arg.lines, i) /\ param_expr_match(arg.lines[i]).ok) =>
                   /\ ReformattedIndex(arg.lines, i) <= Len(lines)
                   /\ lines[ReformattedIndex(arg.lines, i)] = FourSpaces \o arg.lines[i]
        /\ raised # NoError =>
               \E j \in 1..Len(arg.lines) :
                   /\ ~IsFenceLine(arg.lines[j])
                   /\ ~InBlock(arg.lines, j)
                   /\ param_expr_match(arg.lines[j]).ok
                   /\ param_expr_match(arg.lines[j]).g1 \notin DOMAIN EventProps(arg.what, arg.obj)

\* C11 witness: a class that is no enumeration, documented with a closed block whose
\* content is a tag line that names no field; the call returned
C11_Witness ==
    /\ Done("__call__")
    /\ arg.what = "class"
    /\ ~arg.obj.is_enum
    /\ Len(arg.lines) = 3
    /\ IsFenceLine(arg.lines[1])
    /\ IsFenceLine(arg.lines[3])
    /\ param_expr_match(arg.lines[2]).ok
    /\ param_expr_match(arg.lines[2]).g1 \notin DOMAIN arg.obj.fields
    /\ raised = NoError
    /\ lines[3] = <<" ", " ", " ", " ">> \o arg.lines[2]

====
